---- MODULE Spec2Model ----
(***************************************************************************)
(* Kronig-Penney band solver of Seconductor_bandgap_formation.py.          *)
(*                                                                         *)
(* The script is a Streamlit page: every interaction re-executes it from   *)
(* the top (sliders, constants, get_kp_data, plots).  The module-level     *)
(* names of the script are the variables below.                            *)
(*                                                                         *)
(* float64 values are fixed-point integers in units of 1/Scale; the float  *)
(* operators (FAdd, FMul, FDiv, ...) carry the NaN of IEEE arithmetic.     *)
(* Python's 0-based index j of an array is index j+1 of the sequence.      *)
(***************************************************************************)
EXTENDS Integers, Sequences, FiniteSets

VARIABLES pc,        \* where the script run stands: "call", "render", "idle"
          mu, ef,    \* slider values (lines 15-16)
          a, hbar, me,               \* normalized constants (lines 19-21)
          Ka, f, k, E, mask, filled, \* results bound at line 64
          log,       \* history: every get_kp_data call made, inputs and outputs
          runs       \* number of script runs so far

vars == <<pc, mu, ef, a, hbar, me, Ka, f, k, E, mask, filled, log, runs>>

---------------------------------------------------------------------------
\* Bounds of the model.
GridN == 20          \* number of grid points (the source samples 2500)
MaxRuns == 3         \* script runs explored

\* Fixed-point representation of float64.
Scale == 1000
PI == 3142
NaN == -999999999
Inf == 999999999

\* Slider positions explored (barrier strength 0..20, Fermi level 0..45).
MuValues == {0, 3 * Scale, 20 * Scale}
EfValues == {0, 15 * Scale, 45 * Scale}

---------------------------------------------------------------------------
\* float64 arithmetic.
IsNaN(x) == x = NaN

FNeg(x) == IF IsNaN(x) THEN NaN ELSE -x

FAbs(x) == IF IsNaN(x) THEN NaN ELSE IF x < 0 THEN -x ELSE x

FAdd(x, y) == IF IsNaN(x) \/ IsNaN(y) THEN NaN ELSE x + y

FSub(x, y) == IF IsNaN(x) \/ IsNaN(y) THEN NaN ELSE x - y

FMul(x, y) == IF IsNaN(x) \/ IsNaN(y) THEN NaN ELSE (x * y) \div Scale

\* x / y: 0/0 is nan and x/0 is +-inf, as numpy divides.
FDiv(x, y) ==
    IF IsNaN(x) \/ IsNaN(y) THEN NaN
    ELSE IF y = 0 THEN (IF x = 0 THEN NaN ELSE IF x > 0 THEN Inf ELSE -Inf)
    ELSE (x * Scale) \div y

\* x <= y: every comparison with nan is False.
FLe(x, y) == ~IsNaN(x) /\ ~IsNaN(y) /\ x <= y

\* Taylor polynomial of cos on [0, pi/2].
CosTaylor(r) ==
    LET p1 == (r * r) \div Scale
        p2 == (p1 * p1) \div Scale
        p3 == (p2 * p1) \div Scale
        p4 == (p3 * p1) \div Scale
    IN  Scale - (p1 \div 2) + (p2 \div 24) - (p3 \div 720) + (p4 \div 40320)

HalfPi == PI \div 2

\* np.cos: argument folded into [0, pi/2] by periodicity and symmetry.
Cos(x) ==
    IF IsNaN(x) THEN NaN
    ELSE LET ax == IF x < 0 THEN -x ELSE x
             r  == ax % (2 * PI)
             s  == IF r > PI THEN 2 * PI - r ELSE r
         IN  IF s > HalfPi THEN -CosTaylor(PI - s) ELSE CosTaylor(s)

\* Taylor polynomial of sin on [0, pi/2].
SinTaylor(r) ==
    LET r2 == (r * r) \div Scale
        t3 == (r * r2) \div Scale
        t5 == (t3 * r2) \div Scale
        t7 == (t5 * r2) \div Scale
    IN  r - (t3 \div 6) + (t5 \div 120) - (t7 \div 5040)

\* np.sin for x >= 0: argument folded into [0, pi/2] by periodicity and symmetry.
Sin(x) ==
    IF IsNaN(x) THEN NaN
    ELSE LET r == x % (2 * PI)
             s == IF r > PI THEN r - PI ELSE r
             t == IF s > HalfPi THEN PI - s ELSE s
         IN  IF r > PI THEN -SinTaylor(t) ELSE SinTaylor(t)

\* Bisection for the angle in [lo, hi] whose cosine is v (cos decreases on [0, pi]).
RECURSIVE Bisect(_, _, _)
Bisect(v, lo, hi) ==
    IF hi - lo <= 1 THEN (IF Cos(lo) - v <= v - Cos(hi) THEN lo ELSE hi)
    ELSE LET mid == (lo + hi) \div 2
         IN  IF Cos(mid) > v THEN Bisect(v, mid, hi) ELSE Bisect(v, lo, mid)

\* np.arccos: in [0, pi] on [-1, 1], nan outside.
ArcCos(v) ==
    IF IsNaN(v) \/ v > Scale \/ v < -Scale THEN NaN
    ELSE IF v = Scale THEN 0
    ELSE IF v = -Scale THEN PI
    ELSE Bisect(v, 0, PI)

\* int(np.ceil(x / y)) for x >= 0, y > 0.
CeilDiv(x, y) == (x + y - 1) \div y

\* s[::-1]
Reverse(s) == [i \in 1..Len(s) |-> s[Len(s) + 1 - i]]

---------------------------------------------------------------------------
\* get_kp_data, line by line.

\* np.linspace(start, stop, num): evenly spaced, both ends included.
linspace(start, stop, num) ==
    [i \in 1..num |->
        IF i = num THEN stop
        ELSE start + ((i - 1) * (stop - start)) \div (num - 1)]

Start == 1

\* Variant: the grid starts at 0 instead of 0.001.
Grid_from_zero == linspace(0, 3 * PI, GridN)

\* line 26: Ka = np.linspace(0.001, 3.0 * np.pi, 2500)
Grid == linspace(Start, 3 * PI, GridN)

\* line 28: f_vals = np.cos(Ka) + mu * np.sin(Ka) / Ka
f_of(p_mu, x) == FAdd(Cos(x), FDiv(FMul(p_mu, Sin(x)), x))

\* Variant: the band test without the absolute value.
allowed_no_abs(val_f) == FLe(val_f, Scale)

\* line 31: mask_allowed = np.abs(f_vals) <= 1
allowed(val_f) == FLe(FAbs(val_f), Scale)

\* Variant: the energy without the factor 2 of the denominator.
Energy_no_half(x, g_a, g_hbar, g_me) ==
    FDiv(FMul(FMul(g_hbar, g_hbar), FMul(x, x)),
         FMul(g_me, FMul(g_a, g_a)))

\* line 33: E = (hbar**2 * Ka**2) / (2 * me * a**2)
Energy(x, g_a, g_hbar, g_me) ==
    FDiv(FMul(FMul(g_hbar, g_hbar), FMul(x, x)),
         FMul(FMul(2 * Scale, g_me), FMul(g_a, g_a)))

\* Variant: the zone index taken with floor instead of ceil.
zone_n_floor(val_ka) == val_ka \div PI

\* line 40: zone_n = int(np.ceil(val_ka / np.pi))
zone_n(val_ka) == CeilDiv(val_ka, PI)

\* Variant: the loop's band test made strict.
in_band_strict(val_f) == ~IsNaN(val_f) /\ FAbs(val_f) < Scale

\* line 42: the loop's own test of the band condition
in_band(val_f) == FLe(FAbs(val_f), Scale)

\* lines 42-48: k_val of one grid point
k_val(val_ka, val_f) ==
    IF in_band(val_f)
    THEN LET inner_k == ArcCos(val_f)
             n == zone_n(val_ka)
         IN  IF n % 2 = 1 THEN FAdd((n - 1) * PI, inner_k)
             ELSE FSub(n * PI, inner_k)
    ELSE NaN

\* lines 36-51: k_ext, with the division by the lattice constant of line 49
k_ext(ka, fv, g_a) == [i \in 1..Len(ka) |-> FDiv(k_val(ka[i], fv[i]), g_a)]

\* Variant: the negative half negated but not reversed.
k_full_unreversed(ke) == [i \in 1..Len(ke) |-> FNeg(ke[i])] \o ke

\* line 53: k_full = np.concatenate([-k_ext[::-1], k_ext])
k_full_of(ke) == [i \in 1..Len(ke) |-> FNeg(Reverse(ke)[i])] \o ke

\* line 54: E_full = np.concatenate([E[::-1], E])
E_full_of(en) == Reverse(en) \o en

\* Variant: the allowed mask duplicated without reversing.
mask_full_unreversed(m) == m \o m

\* line 55: mask_full = np.concatenate([mask_allowed[::-1], mask_allowed])
mask_full_of(m) == Reverse(m) \o m

\* line 58: valid = ~np.isnan(k_full)
valid(kf) == [i \in 1..Len(kf) |-> ~IsNaN(kf[i])]

\* Variant: the occupation decided by the energy alone.
filled_mask_energy_only(ef_, en, m, v) ==
    [i \in 1..Len(en) |-> FLe(en[i], ef_)]

\* Variant: the Fermi comparison inverted.
filled_mask_inverted(ef_, en, m, v) ==
    [i \in 1..Len(en) |-> FLe(ef_, en[i]) /\ m[i] /\ v[i]]

\* line 59: filled_mask = (E_full <= ef) & mask_full & valid
filled_mask(ef_, en, m, v) ==
    [i \in 1..Len(en) |-> FLe(en[i], ef_) /\ m[i] /\ v[i]]

\* lines 23-61 with the globals it reads made explicit
kp_data(p_mu, p_ef, g_a, g_hbar, g_me) ==
    LET ka   == Grid
        fv   == [i \in 1..Len(ka) |-> f_of(p_mu, ka[i])]
        ma   == [i \in 1..Len(ka) |-> allowed(fv[i])]
        en   == [i \in 1..Len(ka) |-> Energy(ka[i], g_a, g_hbar, g_me)]
        ke   == k_ext(ka, fv, g_a)
        kf   == k_full_of(ke)
        ef_  == E_full_of(en)
        mf   == mask_full_of(ma)
    IN  [Ka |-> ka, f |-> fv, k |-> kf, E |-> ef_, mask |-> mf,
         filled |-> filled_mask(p_ef, ef_, mf, valid(kf))]

\* Variant: k_extended kept at module level, so that it grows from call to call.
get_kp_data_accumulating(p_mu, p_ef) ==
    LET r == kp_data(p_mu, p_ef, a, hbar, me)
    IN  [r EXCEPT !.k = k \o r.k]

\* get_kp_data(mu, ef): a, hbar and me are the module-level names
get_kp_data(p_mu, p_ef) == kp_data(p_mu, p_ef, a, hbar, me)

---------------------------------------------------------------------------
\* The script.

\* lines 19-21
Constants == a' = Scale /\ hbar' = Scale /\ me' = Scale

\* First run, up to line 21: sliders read, constants bound, nothing computed.
Init ==
    /\ pc = "call"
    /\ mu \in MuValues /\ ef \in EfValues
    /\ a = Scale /\ hbar = Scale /\ me = Scale
    /\ Ka = <<>> /\ f = <<>> /\ k = <<>> /\ E = <<>> /\ mask = <<>> /\ filled = <<>>
    /\ log = {}
    /\ runs = 1

\* line 64: Ka, f, k, E, mask, filled = get_kp_data(mu, ef)
Execute ==
    /\ pc = "call"
    /\ LET r == get_kp_data(mu, ef)
       IN  /\ Ka' = r.Ka /\ f' = r.f /\ k' = r.k /\ E' = r.E
           /\ mask' = r.mask /\ filled' = r.filled
           /\ log' = log \cup {[mu |-> mu, ef |-> ef, out |-> r]}
    /\ pc' = "render"
    /\ UNCHANGED <<mu, ef, a, hbar, me, runs>>

\* lines 66-112: plots and text; reads the results, binds no model state
Render ==
    /\ pc = "render"
    /\ pc' = "idle"
    /\ UNCHANGED <<mu, ef, a, hbar, me, Ka, f, k, E, mask, filled, log, runs>>

\* A slider moves: Streamlit re-executes the script, lines 1-21.
Rerun ==
    /\ pc = "idle"
    /\ runs < MaxRuns
    /\ \E m \in MuValues, e \in EfValues : mu' = m /\ ef' = e
    /\ Constants
    /\ pc' = "call"
    /\ runs' = runs + 1
    /\ UNCHANGED <<Ka, f, k, E, mask, filled, log>>

Next == Execute \/ Render \/ Rerun

Spec == Init /\ [][Next]_vars

---------------------------------------------------------------------------
\* Properties.

\* The results of line 64 are bound and belong to the current mu, ef.
Done == pc \in {"render", "idle"}

N == Len(Ka)
L == Len(k)

\* x**2 and |x| <= 1 of the fixed-point representation, written out.
Square(x) == (x * x) \div Scale
AbsLeOne(x) == x # NaN /\ x <= Scale /\ x >= -Scale
ZoneOf(x) == (x + PI - 1) \div PI

\* C1: filled[j] is true exactly when E_full[j] <= ef, mask_full[j] is true
\* and k_full[j] is not NaN, for every index of the full spectrum.
C1_OccupationMask ==
    Done => /\ Len(filled) = L
            /\ \A j \in 1..L :
                 filled[j] <=> (E[j] <= ef /\ mask[j] /\ k[j] # NaN)

\* C1 witness: a filled point, an allowed point above the Fermi level and a
\* forbidden point below it.
C1_Witness ==
    /\ Done
    /\ \E j \in 1..L : filled[j]
    /\ \E j \in 1..L : mask[j] /\ E[j] > ef
    /\ \E j \in 1..L : ~mask[j] /\ E[j] <= ef /\ k[j] = NaN

\* C2: for one mu and Ef1 <= Ef2, every index filled at Ef1 is filled at
\* Ef2, and Ka, f, k_full, E_full and mask_full are the same in both results.
C2_OccupationMonotone ==
    \A r1 \in log, r2 \in log :
        (r1.mu = r2.mu /\ r1.ef <= r2.ef) =>
            /\ Len(r1.out.filled) = Len(r2.out.filled)
            /\ \A j \in 1..Len(r1.out.filled) :
                 r1.out.filled[j] => r2.out.filled[j]
            /\ r1.out.Ka = r2.out.Ka /\ r1.out.f = r2.out.f
            /\ r1.out.k = r2.out.k /\ r1.out.E = r2.out.E
            /\ r1.out.mask = r2.out.mask

\* C2 witness: two calls with one mu, the Fermi level raised, and the set of
\* filled indices strictly larger.
C2_Witness ==
    \E r1 \in log, r2 \in log :
        /\ r1.mu = r2.mu /\ r1.ef < r2.ef
        /\ \E j \in 1..Len(r1.out.filled) : r1.out.filled[j]
        /\ \E j \in 1..Len(r2.out.filled) :
             r2.out.filled[j] /\ ~r1.out.filled[j]

\* C3: k_full[j] = -k_full[L-1-j] and E_full[j] = E_full[L-1-j] for every j;
\* an undefined (NaN) entry is mirrored by an undefined entry.
C3_MirrorSymmetry ==
    Done => \A j \in 1..L :
              /\ E[j] = E[L + 1 - j]
              /\ \/ k[j] = NaN /\ k[L + 1 - j] = NaN
                 \/ k[j] # NaN /\ k[L + 1 - j] # NaN /\ k[j] = -k[L + 1 - j]

\* C3 witness: a spectrum with a defined negative wavevector, a gap, and a
\* grid point whose defined k does not line up with the same index of the
\* negative half (the reversal shows).
C3_Witness ==
    /\ Done
    /\ \E j \in 1..L : k[j] # NaN /\ k[j] < 0 /\ k[L + 1 - j] = -k[j]
    /\ \E j \in 1..L : k[j] = NaN
    /\ \E i \in 1..N : k[N + i] # NaN /\ k[i] = NaN

\* C4: k[i] is NaN exactly when allowed[i] is false (|f[i]| > 1), on the
\* grid and, against mask_full, on the mirrored spectrum.
C4_DefinedIffAllowed ==
    Done => /\ \A i \in 1..N : (k[N + i] = NaN) <=> ~AbsLeOne(f[i])
            /\ \A j \in 1..L : (k[j] = NaN) <=> ~mask[j]
            /\ \A j \in 1..L : k[j] # NaN => (k[j] < Inf /\ k[j] > -Inf)

\* C4 witness: a point on the band edge |f| = 1, a point inside a band and a
\* forbidden point.
C4_Witness ==
    /\ Done
    /\ \E i \in 1..N : (f[i] = Scale \/ f[i] = -Scale) /\ k[N + i] # NaN
    /\ \E i \in 1..N : AbsLeOne(f[i]) /\ f[i] # Scale /\ f[i] # -Scale
    /\ \E i \in 1..N : ~AbsLeOne(f[i]) /\ k[N + i] = NaN

\* C5 as stated: the energy of grid point i is Ka[i]^2.
C5_EnergyIsKaSquared ==
    Done => \A i \in 1..N : E[N + i] = Square(Ka[i])

\* C5 amended: the energy of grid point i is Ka[i]^2 / 2 (hbar = me = a = 1),
\* on both halves of the spectrum, and it increases strictly along the grid.
C5_EnergyIsHalfKaSquared ==
    Done => /\ \A i \in 1..N : /\ E[N + i] = Square(Ka[i]) \div 2
                               /\ E[N + 1 - i] = Square(Ka[i]) \div 2
            /\ \A i \in 1..(N - 1) : Ka[i] < Ka[i + 1] /\ E[N + i] < E[N + i + 1]

\* C5 witness: a computed spectrum whose top energy is positive and half the
\* square of the top grid value.
C5_Witness ==
    /\ Done
    /\ N >= 2
    /\ E[L] > 0
    /\ 2 * E[L] <= Square(Ka[N])
    /\ E[L] # Square(Ka[N])

\* Values a module-level constant could be rebound to.
GlobalValues == {Scale, 2 * Scale}

\* C6 as stated: two calls with the same (mu, ef) agree, and the result does
\* not depend on any module-level state (nothing global is read).
C6_NoGlobalState ==
    /\ \A r1 \in log, r2 \in log :
         (r1.mu = r2.mu /\ r1.ef = r2.ef) => r1.out = r2.out
    /\ Done => \A g_a \in GlobalValues, g_hbar \in GlobalValues,
                  g_me \in GlobalValues :
                 kp_data(mu, ef, g_a, g_hbar, g_me)
                   = [Ka |-> Ka, f |-> f, k |-> k, E |-> E, mask |-> mask,
                      filled |-> filled]

\* C6 amended: two calls with the same (mu, ef) return identical sequences;
\* the module-level a, hbar and me that the call reads are 1.0 at every call,
\* and the call rebinds none of mu, ef, a, hbar, me.
C6_DeterministicCalls ==
    /\ [](\A r1 \in log, r2 \in log :
            (r1.mu = r2.mu /\ r1.ef = r2.ef) => r1.out = r2.out)
    /\ [](a = Scale /\ hbar = Scale /\ me = Scale)
    /\ [](Done => [mu |-> mu, ef |-> ef,
                   out |-> [Ka |-> Ka, f |-> f, k |-> k, E |-> E,
                            mask |-> mask, filled |-> filled]] \in log)
    /\ [][pc = "call" => /\ mu' = mu /\ ef' = ef
                         /\ a' = a /\ hbar' = hbar /\ me' = me]_vars

\* C6 witness: the same (mu, ef) has been computed in two runs, with another
\* input in between or before, and the log holds one result for it.
C6_Witness ==
    /\ Done
    /\ runs >= 2
    /\ Cardinality(log) < runs
    /\ Cardinality(log) >= 1
    /\ \A r \in log : r.mu > 0

\* C7: every grid point is strictly positive, the grid increases strictly up
\* to 3*pi, and the criterion is a finite number at every point (no division
\* by zero).
C7_GridPositive ==
    Done => /\ N >= 2
            /\ \A i \in 1..N : Ka[i] > 0
            /\ \A i \in 1..(N - 1) : Ka[i] < Ka[i + 1]
            /\ Ka[N] = 3 * PI
            /\ \A i \in 1..N : f[i] # NaN /\ f[i] < Inf /\ f[i] > -Inf

\* C7 witness: the first grid point is 0.001 and sin(Ka)/Ka is 1 there, so
\* that f = 1 + mu with mu > 0.
C7_Witness ==
    /\ Done
    /\ mu > 0
    /\ Ka[1] = Start
    /\ f[1] = Scale + mu

\* C8: Ka and f have the grid length N; k_full, E_full, mask_full and filled
\* have length 2N; entry j < N of each derives from grid point N-1-j, entry
\* j >= N from grid point j-N.
C8_ShapeAndAlignment ==
    Done =>
      /\ N = GridN /\ Len(f) = N
      /\ L = 2 * N /\ Len(E) = 2 * N /\ Len(mask) = 2 * N /\ Len(filled) = 2 * N
      /\ \A i \in 1..N :
           /\ k[N + i] = FDiv(k_val(Ka[i], f[i]), a)
           /\ E[N + i] = Energy(Ka[i], a, hbar, me)
           /\ mask[N + i] = AbsLeOne(f[i])
           /\ k[N + 1 - i] = FNeg(FDiv(k_val(Ka[i], f[i]), a))
           /\ E[N + 1 - i] = Energy(Ka[i], a, hbar, me)
           /\ mask[N + 1 - i] = AbsLeOne(f[i])

\* C8 witness: a spectrum in which the allowed flags of the grid are not a
\* palindrome, so that the order of the mirrored half shows.
C8_Witness ==
    /\ Done
    /\ L = 2 * GridN
    /\ \E i \in 1..N : mask[N + i] # mask[L + 1 - i]

\* C9: an allowed grid point of zone n = ceil(Ka/pi) >= 1 gets
\* k = (n-1)*pi + arccos(f) for odd n and k = n*pi - arccos(f) for even n,
\* with arccos(f) in [0, pi]; so k lies in [(n-1)*pi, n*pi], and allowed
\* points of a lower zone never lie above those of a higher zone.
C9_ExtendedZoneFolding ==
    Done => \A i \in 1..N :
      AbsLeOne(f[i]) =>
        LET n == ZoneOf(Ka[i])
            innerK == ArcCos(f[i])
        IN  /\ n >= 1
            /\ innerK >= 0 /\ innerK <= PI
            /\ k[N + i] = IF n % 2 = 1 THEN (n - 1) * PI + innerK
                          ELSE n * PI - innerK
            /\ (n - 1) * PI <= k[N + i] /\ k[N + i] <= n * PI
            /\ \A i2 \in 1..N :
                 (AbsLeOne(f[i2]) /\ ZoneOf(Ka[i2]) > n) => k[N + i] <= k[N + i2]

\* C9 witness: with a barrier, allowed points strictly inside the k range of
\* an odd zone and of an even zone.
C9_Witness ==
    /\ Done
    /\ mu > 0
    /\ \E i \in 1..N : /\ ZoneOf(Ka[i]) = 2 /\ k[N + i] # NaN
                       /\ PI < k[N + i] /\ k[N + i] < 2 * PI
    /\ \E i \in 1..N : /\ ZoneOf(Ka[i]) = 3 /\ k[N + i] # NaN
                       /\ 2 * PI < k[N + i] /\ k[N + i] < 3 * PI

\* C10: filled[j] equals (E_full[j] <= ef) and mask_full[j]; no index has
\* mask_full[j] true and k_full[j] NaN, so the validity term changes nothing.
C10_ValidRedundant ==
    Done => \A j \in 1..L :
              /\ ~(mask[j] /\ k[j] = NaN)
              /\ filled[j] = (E[j] <= ef /\ mask[j])

\* C10 witness: a spectrum with NaN entries, and a point with f < -1 (beyond
\* the lower band edge) that is unfilled although its energy is below Ef.
C10_Witness ==
    /\ Done
    /\ \E j \in 1..L : k[j] = NaN /\ ~mask[j]
    /\ \E i \in 1..N : f[i] < -Scale /\ E[N + i] <= ef /\ ~filled[N + i]
    /\ \E j \in 1..L : filled[j]

====
